---- MODULE Spec2Model ----
(***************************************************************************)
(* Model of the Unity bridge of src/mcp_server/server.py: the              *)
(* UnityConnection class (connect, disconnect, receive_full_response,      *)
(* send_command), the module-level registry get_unity_connection and the   *)
(* tool functions that call them, together with the remote side they talk  *)
(* to over TCP.                                                            *)
(*                                                                         *)
(* Bytes and text are sequences of units.  A unit is a record:             *)
(*   [p |-> s]   a bare run of characters: punctuation, a literal word, a  *)
(*               digit, a blank, or the characters inside a string         *)
(*   [q |-> t]   a quoted JSON string whose content is the text t (the     *)
(*               nesting stands for the escaping json.dumps performs)      *)
(*   [h1 |-> t], [h2 |-> t]   the two halves of a quoted string that holds *)
(*               a multi-byte UTF-8 character, cut inside that character   *)
(* JSON values are records too: [str |-> text], [num |-> digits],          *)
(* [lit |-> "true" | "false" | "null"], [obj |-> sequence of [k, v]].      *)
(***************************************************************************)
EXTENDS Integers, Sequences, FiniteSets, TLC

----------------------------------------------------------------------------
(* Text and JSON values *)

P(s) == [p |-> s]
Q(s) == [q |-> <<[p |-> s]>>]

LBrace == P("{")
RBrace == P("}")
Colon == P(":")
Comma == P(",")
Blank == P(" ")

Digits == {"0", "7"}
Literals == {"true", "false", "null"}

IsP(u) == DOMAIN u = {"p"}
IsQ(u) == DOMAIN u = {"q"}
IsH1(u) == DOMAIN u = {"h1"}
IsH2(u) == DOMAIN u = {"h2"}

Str(s) == [str |-> <<[p |-> s]>>]
Lit(s) == [lit |-> s]
Num(ds) == [num |-> ds]
Obj(ms) == [obj |-> ms]
EmptyObj == [obj |-> <<>>]
PyNone == Lit("null")
KV(key, val) == [k |-> << P(key) >>, v |-> val]

IsStr(v) == DOMAIN v = {"str"}
IsLit(v) == DOMAIN v = {"lit"}
IsNum(v) == DOMAIN v = {"num"}
IsObj(v) == DOMAIN v = {"obj"}

(* a Python list, which json.dumps writes as an array *)
List(xs) == [list |-> xs]
IsList(v) == DOMAIN v = {"list"}

(* dict: key membership, lookup with a default, and assignment, which      *)
(* keeps the position of a key that is already there                       *)
HasKey(ms, k) == \E i \in 1..Len(ms) : ms[i].k = k
KeyIndex(ms, k) == CHOOSE i \in 1..Len(ms) : ms[i].k = k
DictGet(ms, k, default) == IF HasKey(ms, k) THEN ms[KeyIndex(ms, k)].v ELSE default
DictPut(ms, k, v) ==
    IF HasKey(ms, k)
    THEN [ms EXCEPT ![KeyIndex(ms, k)] = [k |-> k, v |-> v]]
    ELSE Append(ms, [k |-> k, v |-> v])

(* Python truth value of a decoded JSON value *)
Truthy(v) ==
    IF IsLit(v) THEN v.lit = "true"
    ELSE IF IsNum(v) THEN v.num # <<"0">>
    ELSE IF IsStr(v) THEN v.str # <<>>
    ELSE v.obj # <<>>

----------------------------------------------------------------------------
(* bytes.decode('utf-8'): fails on a buffer that holds half a character,   *)
(* joins the two halves of a character otherwise                           *)

Utf8Ok(b) ==
    /\ \A i \in 1..Len(b) : IsH1(b[i]) => i < Len(b) /\ IsH2(b[i + 1])
    /\ \A i \in 1..Len(b) : IsH2(b[i]) => i > 1 /\ IsH1(b[i - 1])

RECURSIVE Utf8Join(_)
Utf8Join(b) ==
    IF b = <<>> THEN <<>>
    ELSE IF IsH1(b[1])
         THEN <<[q |-> b[1].h1 \o b[2].h2]>> \o Utf8Join(SubSeq(b, 3, Len(b)))
         ELSE <<b[1]>> \o Utf8Join(Tail(b))

(* str.encode('utf-8') of text json.dumps produced (ASCII only) *)
Utf8Encode(t) == t

----------------------------------------------------------------------------
(* json.loads *)

RECURSIVE SkipWs(_)
SkipWs(t) == IF t # <<>> /\ t[1] = Blank THEN SkipWs(Tail(t)) ELSE t

RECURSIVE DigitRun(_)
DigitRun(t) ==
    IF t # <<>> /\ IsP(t[1]) /\ t[1].p \in Digits
    THEN <<t[1].p>> \o DigitRun(Tail(t))
    ELSE <<>>

ParseFail == [ok |-> FALSE]

RECURSIVE ParseValue(_), ParseMembers(_, _)
ParseValue(t0) ==
    LET t == SkipWs(t0) IN
    IF t = <<>> THEN ParseFail
    ELSE IF IsQ(t[1]) THEN [ok |-> TRUE, v |-> [str |-> t[1].q], rest |-> Tail(t)]
    ELSE IF ~IsP(t[1]) THEN ParseFail
    ELSE IF t[1].p \in Literals THEN [ok |-> TRUE, v |-> Lit(t[1].p), rest |-> Tail(t)]
    ELSE IF t[1].p = "0" THEN [ok |-> TRUE, v |-> Num(<<"0">>), rest |-> Tail(t)]
    ELSE IF t[1].p \in Digits
         THEN LET ds == DigitRun(t)
              IN [ok |-> TRUE, v |-> Num(ds), rest |-> SubSeq(t, Len(ds) + 1, Len(t))]
    ELSE IF t[1] = LBrace
         THEN LET t1 == SkipWs(Tail(t)) IN
              IF t1 # <<>> /\ t1[1] = RBrace
              THEN [ok |-> TRUE, v |-> EmptyObj, rest |-> Tail(t1)]
              ELSE ParseMembers(t1, <<>>)
    ELSE ParseFail

(* the members of an object after "{" or ",": a key, a colon, a value,    *)
(* then "," and more members, or "}"                                       *)
ParseMembers(t0, ms) ==
    LET t == SkipWs(t0) IN
    IF t = <<>> \/ ~IsQ(t[1]) THEN ParseFail
    ELSE LET t1 == SkipWs(Tail(t)) IN
         IF t1 = <<>> \/ t1[1] # Colon THEN ParseFail
         ELSE LET r == ParseValue(Tail(t1)) IN
              IF ~r.ok THEN ParseFail
              ELSE LET ms1 == DictPut(ms, t[1].q, r.v)
                       t2 == SkipWs(r.rest)
                   IN IF t2 = <<>> THEN ParseFail
                      ELSE IF t2[1] = Comma THEN ParseMembers(Tail(t2), ms1)
                      ELSE IF t2[1] = RBrace
                           THEN [ok |-> TRUE, v |-> Obj(ms1), rest |-> Tail(t2)]
                      ELSE ParseFail

(* a parser that stops at the end of the first value *)
JsonParsesPrefix(t) == ParseValue(t).ok

(* json.loads(text): a value, with nothing but blanks after it *)
JsonParses(t) == LET r == ParseValue(t) IN r.ok /\ SkipWs(r.rest) = <<>>
JsonLoads(t) == ParseValue(t).v

----------------------------------------------------------------------------
(* json.dumps with the default separators ", " and ": " *)

RECURSIVE JsonDumps(_), DumpMembers(_), DumpItems(_)
JsonDumps(v) ==
    IF IsStr(v) THEN <<[q |-> v.str]>>
    ELSE IF IsLit(v) THEN <<P(v.lit)>>
    ELSE IF IsNum(v) THEN [i \in 1..Len(v.num) |-> P(v.num[i])]
    ELSE IF IsList(v) THEN <<P("[")>> \o DumpItems(v.list) \o <<P("]")>>
    ELSE <<LBrace>> \o DumpMembers(v.obj) \o <<RBrace>>

DumpItems(xs) ==
    IF xs = <<>> THEN <<>>
    ELSE JsonDumps(xs[1])
         \o (IF Len(xs) > 1 THEN <<Comma, Blank>> \o DumpItems(Tail(xs)) ELSE <<>>)

DumpMembers(ms) ==
    IF ms = <<>> THEN <<>>
    ELSE <<[q |-> ms[1].k], Colon, Blank>> \o JsonDumps(ms[1].v)
         \o (IF Len(ms) > 1 THEN <<Comma, Blank>> \o DumpMembers(Tail(ms)) ELSE <<>>)

----------------------------------------------------------------------------
(* Bounds of the model *)

MaxSocks == 2
MaxConns == 3

(* the callers of the bridge; Spec runs the first one alone *)
AllCallers == {1, 2}

----------------------------------------------------------------------------
(* The address a Connection targets *)

DefaultTarget == "localhost:9876"
OtherTarget == "otherhost:9999"
Targets == {DefaultTarget, OtherTarget}

----------------------------------------------------------------------------
(* What the remote side may write as one response: its bytes, and the      *)
(* JSON document they are meant to be (val; NoVal when they are none).     *)
(* The remote's serializer writes no blanks between the parts.             *)

NoVal == [none |-> TRUE]

VersionObj == Obj(<< KV("version", Str("1.0")) >>)
VersionBytes == << LBrace, Q("version"), Colon, Q("1.0"), RBrace >>

Docs ==
    << \* 1: success with data
       [bytes |-> << LBrace, Q("success"), Colon, P("true"), Comma,
                     Q("data"), Colon >> \o VersionBytes \o << RBrace >>,
        val |-> Obj(<< KV("success", Lit("true")), KV("data", VersionObj) >>)],
       \* 2: success without a data key
       [bytes |-> << LBrace, Q("success"), Colon, P("true"), RBrace >>,
        val |-> Obj(<< KV("success", Lit("true")) >>)],
       \* 3: failure with an error message
       [bytes |-> << LBrace, Q("success"), Colon, P("false"), Comma,
                     Q("error"), Colon, Q("object not found"), RBrace >>,
        val |-> Obj(<< KV("success", Lit("false")),
                       KV("error", Str("object not found")) >>)],
       \* 4: failure that also carries a data key
       [bytes |-> << LBrace, Q("success"), Colon, P("false"), Comma,
                     Q("error"), Colon, Q("object not found"), Comma,
                     Q("data"), Colon >> \o VersionBytes \o << RBrace >>,
        val |-> Obj(<< KV("success", Lit("false")),
                       KV("error", Str("object not found")),
                       KV("data", VersionObj) >>)],
       \* 5: no success key
       [bytes |-> << LBrace, Q("data"), Colon >> \o VersionBytes \o << RBrace >>,
        val |-> Obj(<< KV("data", VersionObj) >>)],
       \* 6: a number, whose first digit alone is a JSON document too
       [bytes |-> << P("7"), P("7") >>,
        val |-> Num(<< "7", "7" >>)],
       \* 7: a document followed by another byte
       [bytes |-> << LBrace, Q("success"), Colon, P("true"), RBrace, P("x") >>,
        val |-> NoVal],
       \* 8: success whose data holds a two-byte character
       [bytes |-> << LBrace, Q("success"), Colon, P("true"), Comma,
                     Q("data"), Colon, [h1 |-> << P("caf") >>],
                     [h2 |-> << P("e-acute") >>], RBrace >>,
        val |-> Obj(<< KV("success", Lit("true")),
                       KV("data", [str |-> << P("caf"), P("e-acute") >>]) >>)],
       \* 9: a null success, with data and without an error message
       [bytes |-> << LBrace, Q("success"), Colon, P("null"), Comma,
                     Q("data"), Colon >> \o VersionBytes \o << RBrace >>,
        val |-> Obj(<< KV("success", Lit("null")), KV("data", VersionObj) >>)]
    >>

DocIds == 1..Len(Docs)

RECURSIVE MaxLen(_)
MaxLen(ds) == IF ds = <<>> THEN 0
              ELSE LET m == MaxLen(Tail(ds)) IN
                   IF Len(ds[1].bytes) > m THEN Len(ds[1].bytes) ELSE m

(* no recv of the model returns more than the longest response and what    *)
(* the response before it left behind                                      *)
MaxChunk == 2 * MaxLen(Docs)

----------------------------------------------------------------------------
(* Exceptions: a class and a message.  A message is a sequence of parts,   *)
(* [lit |-> s] for text of the program and [val |-> v] for str(v) of a     *)
(* value.                                                                  *)

Lt(s) == [lit |-> s]
Exc(cls, msg) == [cls |-> cls, msg |-> msg]

(* the subclasses of ConnectionError the handlers name *)
ConnectionErrors == {"ConnectionError", "BrokenPipeError", "ConnectionResetError"}

----------------------------------------------------------------------------
(* The calls of the model: a tool with its arguments, or send_command      *)
(* called directly.  params is the params argument send_command gets:      *)
(* PyNone when the caller passes none.                                     *)

Calls ==
    { [tool |-> "get_system_info", type |-> "core.GetSystemInfo", params |-> PyNone],
      [tool |-> "get_object_info", type |-> "object.GetObjectInfo",
       params |-> Obj(<< KV("name", Str("Cube")) >>)],
      [tool |-> "send_command", type |-> "scene.GetSceneInfo", params |-> EmptyObj] }

ToolCalls == { c \in Calls : c.tool # "send_command" }
ApiCalls == { c \in Calls : c.tool = "send_command" }
NoCall == [tool |-> "none"]

ToolErrorPrefix(tool) ==
    IF tool = "get_system_info" THEN "Error getting system info: "
    ELSE IF tool = "create_object" THEN "Error creating object: "
    ELSE IF tool = "create_light" THEN "Error creating light: "
    ELSE "Error getting object info: "

(* create_object and create_light: the params they pass to send_command.   *)
(* An argument is a Python value: None, a string, a float, or a list of    *)
(* three numbers.                                                          *)
ArgTruthy(v) == IF IsList(v) THEN v.list # <<>> ELSE Truthy(v)

(* {"x": v[0], "y": v[1], "z": v[2]} *)
Xyz(v) == Obj(<< KV("x", v.list[1]), KV("y", v.list[2]), KV("z", v.list[3]) >>)

PutIf(ms, cond, key, val) == IF cond THEN DictPut(ms, << P(key) >>, val) ELSE ms

(* a create_light that leaves out what was left at its default *)
CreateLightParamsSparse(a) ==
    LET p0 == PutIf(<<>>, a.type # Str("Point"), "type", a.type)
        p1 == PutIf(p0, a.name # PyNone, "name", a.name)
        p2 == PutIf(p1, a.intensity # Num(<< "1", ".", "0" >>), "intensity", a.intensity)
        p3 == PutIf(p2, a.range # Num(<< "1", "0", ".", "0" >>), "range", a.range)
        p4 == PutIf(p3, ArgTruthy(a.location), "position", Xyz(a.location))
        p5 == PutIf(p4, ArgTruthy(a.rotation), "rotation", Xyz(a.rotation))
        p6 == PutIf(p5, ArgTruthy(a.color), "color", a.color)
    IN Obj(p6)

CreateLightParams(a) ==
    LET p0 == << KV("type", a.type), KV("name", a.name),
                 KV("intensity", a.intensity), KV("range", a.range) >>
        p1 == PutIf(p0, ArgTruthy(a.location), "position", Xyz(a.location))
        p2 == PutIf(p1, ArgTruthy(a.rotation), "rotation", Xyz(a.rotation))
        p3 == PutIf(p2, ArgTruthy(a.color), "color", a.color)
    IN Obj(p3)

CreateObjectParams(a) ==
    LET p0 == << KV("type", a.type), KV("name", a.name) >>
        p1 == PutIf(p0, ArgTruthy(a.location), "position", Xyz(a.location))
        p2 == PutIf(p1, ArgTruthy(a.rotation), "rotation", Xyz(a.rotation))
        p3 == PutIf(p2, ArgTruthy(a.scale), "scale", Xyz(a.scale))
        p4 == PutIf(p3, ArgTruthy(a.color), "color", a.color)
        p5 == PutIf(p4, ArgTruthy(a.material), "material", a.material)
    IN Obj(p5)

(* the defaults of the signatures, and the arguments the model passes *)
LightDefaults ==
    [type |-> Str("Point"), name |-> PyNone, location |-> PyNone, rotation |-> PyNone,
     color |-> PyNone, intensity |-> Num(<< "1", ".", "0" >>),
     range |-> Num(<< "1", "0", ".", "0" >>)]

ObjectDefaults ==
    [type |-> Str("Cube"), name |-> PyNone, location |-> PyNone, rotation |-> PyNone,
     scale |-> PyNone, color |-> PyNone, material |-> PyNone]

SomeVector == List(<< Num(<< "0" >>), Num(<< "7" >>), Num(<< "0" >>) >>)

LightArgs ==
    [type : {Str("Point"), Str("Spot")}, name : {PyNone, Str("Lamp")},
     location : {PyNone, SomeVector}, rotation : {PyNone, SomeVector},
     color : {PyNone, SomeVector},
     intensity : {Num(<< "1", ".", "0" >>), Num(<< "7", ".", "0" >>)},
     range : {Num(<< "1", "0", ".", "0" >>), Num(<< "7", ".", "0" >>)}]

ObjectArgs ==
    [type : {Str("Cube"), Str("Sphere")}, name : {PyNone, Str("Box")},
     location : {PyNone, SomeVector}, rotation : {PyNone, SomeVector},
     scale : {PyNone, SomeVector}, color : {PyNone, SomeVector},
     material : {PyNone, Str("Metal")}]

CreateCalls ==
    { [tool |-> "create_light", type |-> "lighting.CreateLight",
       params |-> CreateLightParams(a), args |-> a] : a \in LightArgs }
    \cup
    { [tool |-> "create_object", type |-> "object.CreatePrimitive",
       params |-> CreateObjectParams(a), args |-> a] : a \in ObjectArgs }

(* send_command, the command envelope *)
ParamsOrEmpty(params) == IF Truthy(params) THEN params ELSE EmptyObj

(* the envelope with the arguments nested as an object *)
BuildCommandNested(type, params) ==
    Obj(<< KV("type", Str(type)), KV("parameters", ParamsOrEmpty(params)) >>)

BuildCommand(type, params) ==
    Obj(<< KV("type", Str(type)),
           KV("parameters", [str |-> JsonDumps(ParamsOrEmpty(params))]) >>)

CommandBytes(type, params) == Utf8Encode(JsonDumps(BuildCommand(type, params)))

----------------------------------------------------------------------------
(* receive_full_response, one turn of its loop.  The list of chunks is     *)
(* kept joined: the code reads it only through b''.join(chunks) and        *)
(* through its emptiness, and no chunk in it is empty.                     *)
(* The result says whether the loop goes on, the receiver returns the      *)
(* buffer, or it raises.                                                   *)

Going(buf) == [st |-> "continue", buf |-> buf]
Returns(buf) == [st |-> "return", buf |-> buf]
Raises(buf, e) == [st |-> "raise", buf |-> buf, exc |-> e]

(* a receiver that hands back whatever it has when the loop is left *)
AfterLoopLenient(buf) ==
    IF buf # <<>> THEN Returns(buf)
    ELSE Raises(buf, Exc("Exception", << Lt("No data received") >>))

(* a receiver that looks at the last chunk only *)
OnChunkLast(buf, chunk) ==
    IF ~Utf8Ok(chunk) THEN Raises(chunk, Exc("UnicodeDecodeError", << Lt("invalid utf-8") >>))
    ELSE IF JsonParses(Utf8Join(chunk)) THEN Returns(chunk)
    ELSE Going(chunk)

(* a receiver that reads on after b'' *)
OnEmptyReadGoing(buf) == Going(buf)

(* after the loop *)
AfterLoop(buf) ==
    IF buf # <<>>
    THEN IF ~Utf8Ok(buf) THEN Raises(buf, Exc("UnicodeDecodeError", << Lt("invalid utf-8") >>))
         ELSE IF JsonParses(Utf8Join(buf)) THEN Returns(buf)
         ELSE Raises(buf, Exc("Exception", << Lt("Incomplete JSON response received") >>))
    ELSE Raises(buf, Exc("Exception", << Lt("No data received") >>))

(* a receiver that reads until the remote stops sending *)
OnChunkUnchecked(buf, chunk) == Going(buf \o chunk)

(* recv returned the non-empty chunk *)
OnChunk(buf, chunk) ==
    LET data == buf \o chunk IN
    IF ~Utf8Ok(data) THEN Raises(data, Exc("UnicodeDecodeError", << Lt("invalid utf-8") >>))
    ELSE IF JsonParses(Utf8Join(data)) THEN Returns(data)
    ELSE Going(data)

(* a receiver that hands back what it has when the remote closes *)
OnEmptyReadPartial(buf) ==
    IF buf = <<>>
    THEN Raises(buf, Exc("Exception", << Lt("Connection closed before receiving any data") >>))
    ELSE Returns(buf)

(* recv returned b'' *)
OnEmptyRead(buf) ==
    IF buf = <<>>
    THEN Raises(buf, Exc("Exception", << Lt("Connection closed before receiving any data") >>))
    ELSE AfterLoop(buf)

(* recv raised socket.timeout *)
OnRecvTimeout(buf) == AfterLoop(buf)

(* recv raised ConnectionResetError *)
OnRecvReset(buf) == Raises(buf, Exc("ConnectionResetError", << Lt("Connection reset by peer") >>))

----------------------------------------------------------------------------
(* send_command after the receiver returned: decode, look at success *)

Ret(v) == [kind |-> "ret", val |-> v]
Fail(e) == [kind |-> "exc", exc |-> e]

UnknownError == "Unknown error from Unity"

(* send_command returning response.get("data") *)
InterpretNoDefault(data) ==
    IF ~Utf8Ok(data) THEN Fail(Exc("UnicodeDecodeError", << Lt("invalid utf-8") >>))
    ELSE IF ~JsonParses(Utf8Join(data))
         THEN Fail(Exc("JSONDecodeError", << Lt("Expecting value") >>))
    ELSE LET response == JsonLoads(Utf8Join(data)) IN
         IF ~IsObj(response)
         THEN Fail(Exc("AttributeError", << Lt("object has no attribute 'get'") >>))
         ELSE IF ~Truthy(DictGet(response.obj, << P("success") >>, PyNone))
              THEN Fail(Exc("Exception",
                            IF HasKey(response.obj, << P("error") >>)
                            THEN << [val |-> DictGet(response.obj, << P("error") >>, PyNone)] >>
                            ELSE << Lt(UnknownError) >>))
              ELSE Ret(DictGet(response.obj, << P("data") >>, PyNone))

(* send_command returning the data of any response that has some *)
InterpretDataFirst(data) ==
    IF ~Utf8Ok(data) THEN Fail(Exc("UnicodeDecodeError", << Lt("invalid utf-8") >>))
    ELSE IF ~JsonParses(Utf8Join(data))
         THEN Fail(Exc("JSONDecodeError", << Lt("Expecting value") >>))
    ELSE LET response == JsonLoads(Utf8Join(data)) IN
         IF ~IsObj(response)
         THEN Fail(Exc("AttributeError", << Lt("object has no attribute 'get'") >>))
         ELSE IF HasKey(response.obj, << P("data") >>)
              THEN Ret(DictGet(response.obj, << P("data") >>, EmptyObj))
         ELSE IF ~Truthy(DictGet(response.obj, << P("success") >>, PyNone))
              THEN Fail(Exc("Exception",
                            IF HasKey(response.obj, << P("error") >>)
                            THEN << [val |-> DictGet(response.obj, << P("error") >>, PyNone)] >>
                            ELSE << Lt(UnknownError) >>))
              ELSE Ret(EmptyObj)

(* send_command failing only on a success that is false *)
InterpretUnlessFalse(data) ==
    IF ~Utf8Ok(data) THEN Fail(Exc("UnicodeDecodeError", << Lt("invalid utf-8") >>))
    ELSE IF ~JsonParses(Utf8Join(data))
         THEN Fail(Exc("JSONDecodeError", << Lt("Expecting value") >>))
    ELSE LET response == JsonLoads(Utf8Join(data)) IN
         IF ~IsObj(response)
         THEN Fail(Exc("AttributeError", << Lt("object has no attribute 'get'") >>))
         ELSE IF DictGet(response.obj, << P("success") >>, PyNone) = Lit("false")
              THEN Fail(Exc("Exception",
                            IF HasKey(response.obj, << P("error") >>)
                            THEN << [val |-> DictGet(response.obj, << P("error") >>, PyNone)] >>
                            ELSE << Lt(UnknownError) >>))
              ELSE Ret(DictGet(response.obj, << P("data") >>, EmptyObj))

Interpret(data) ==
    IF ~Utf8Ok(data) THEN Fail(Exc("UnicodeDecodeError", << Lt("invalid utf-8") >>))
    ELSE IF ~JsonParses(Utf8Join(data))
         THEN Fail(Exc("JSONDecodeError", << Lt("Expecting value") >>))
    ELSE LET response == JsonLoads(Utf8Join(data)) IN
         IF ~IsObj(response)
         THEN Fail(Exc("AttributeError", << Lt("object has no attribute 'get'") >>))
         ELSE IF ~Truthy(DictGet(response.obj, << P("success") >>, PyNone))
              THEN Fail(Exc("Exception",
                            IF HasKey(response.obj, << P("error") >>)
                            THEN << [val |-> DictGet(response.obj, << P("error") >>, PyNone)] >>
                            ELSE << Lt(UnknownError) >>))
              ELSE Ret(DictGet(response.obj, << P("data") >>, EmptyObj))

(* except clauses of which only those for socket errors clear the handle *)
HandlerKeeping(e) ==
    IF e.cls = "timeout"
    THEN [clear |-> TRUE,
          exc |-> Exc("Exception",
                      << Lt("Timeout waiting for Unity response - try simplifying your request") >>)]
    ELSE IF e.cls \in ConnectionErrors
    THEN [clear |-> TRUE,
          exc |-> Exc("Exception", << Lt("Connection to Unity lost: ") >> \o e.msg)]
    ELSE [clear |-> FALSE,
          exc |-> Exc("Exception", << Lt("Communication error with Unity: ") >> \o e.msg)]

(* except clauses that raise what the code raises and keep the handle *)
HandlerNeverClearing(e) ==
    [clear |-> FALSE,
     exc |-> IF e.cls = "timeout"
             THEN Exc("Exception",
                      << Lt("Timeout waiting for Unity response - try simplifying your request") >>)
             ELSE IF e.cls \in ConnectionErrors
             THEN Exc("Exception", << Lt("Connection to Unity lost: ") >> \o e.msg)
             ELSE IF e.cls = "JSONDecodeError"
             THEN Exc("Exception", << Lt("Invalid response from Unity: ") >> \o e.msg)
             ELSE Exc("Exception", << Lt("Communication error with Unity: ") >> \o e.msg)]

(* the except clauses of send_command, in their order: whether the handle  *)
(* is cleared, and the exception raised instead                            *)
Handler(e) ==
    IF e.cls = "timeout"
    THEN [clear |-> TRUE,
          exc |-> Exc("Exception",
                      << Lt("Timeout waiting for Unity response - try simplifying your request") >>)]
    ELSE IF e.cls \in ConnectionErrors
    THEN [clear |-> TRUE,
          exc |-> Exc("Exception", << Lt("Connection to Unity lost: ") >> \o e.msg)]
    ELSE IF e.cls = "JSONDecodeError"
    THEN [clear |-> FALSE,
          exc |-> Exc("Exception", << Lt("Invalid response from Unity: ") >> \o e.msg)]
    ELSE [clear |-> TRUE,
          exc |-> Exc("Exception", << Lt("Communication error with Unity: ") >> \o e.msg)]

----------------------------------------------------------------------------
(* State *)

VARIABLES
    cfg,        \* the address --unity-host/--unity-port name, where the remote listens
    phase,      \* server_lifespan: "starting", "running", "stopped"
    registry,   \* _unity_connection: 0 for None, or the index of a Connection
    conns,      \* the Connection objects constructed so far: [target, sock]; sock 0 is None
    socks,      \* the sockets created so far
    pc,         \* per caller: "idle", "send" (holds a Connection), "recv" (in the
                \* receive loop), "done" (the call has just ended)
    call,       \* per caller: the call in progress
    held,       \* per caller: the Connection get_unity_connection returned to it
    rsock,      \* per caller: the sock argument of receive_full_response
    chunks,     \* per caller: the receiver's buffer
    ev,         \* per caller: what its last recv did: "chunk", "empty", "timeout", "reset";
                \* "send" when sendall raised, "none" before the first recv
    outcome,    \* per caller: how its last get_unity_connection or send_command ended
    toolRet,    \* per caller: what its last tool call returned
    clock       \* per caller: the seconds its receive loop has been blocked in recv
                \* (total), and of these the seconds in the recv it is in now (idle)

vars == << cfg, phase, registry, conns, socks,
           pc, call, held, rsock, chunks, ev, outcome, toolRet, clock >>

callerVars == << pc, call, held, rsock, chunks, ev, outcome, toolRet, clock >>

(* A connected socket: how often close() was called on it, the state of    *)
(* the peer ("open", "fin" after the remote     *)
(* closed, "rst" after a reset, "none" when there is none), whether a      *)
(* call set a timeout on it (timed), the bytes of the remote's responses   *)
(* that no recv has returned yet (wire), the requests the remote has not   *)
(* answered (inbox), the document the remote wrote last (doc) and the      *)
(* request it answered with it (re), and the Connection whose connect()    *)
(* created it (owner).                                                     *)
NewSock ==
    [closes |-> 0, peer |-> "open",
     timed |-> FALSE, wire |-> <<>>, inbox |-> <<>>, doc |-> 0, re |-> <<>>, owner |-> 0]

NoOutcome == [kind |-> "none"]
NoRet == [none |-> TRUE]
NoWait == [total |-> 0, idle |-> 0]

Init ==
    /\ phase = "starting"
    /\ \/ \* main() constructed the Connection from the arguments
          /\ cfg \in Targets
          /\ registry = 1
          /\ conns = << [target |-> cfg, sock |-> 0] >>
       \/ \* the module was loaded without main()
          /\ cfg = DefaultTarget
          /\ registry = 0
          /\ conns = <<>>
    /\ socks = <<>>
    /\ pc = [c \in AllCallers |-> "idle"]
    /\ call = [c \in AllCallers |-> NoCall]
    /\ held = [c \in AllCallers |-> 0]
    /\ rsock = [c \in AllCallers |-> 0]
    /\ chunks = [c \in AllCallers |-> <<>>]
    /\ ev = [c \in AllCallers |-> "none"]
    /\ outcome = [c \in AllCallers |-> NoOutcome]
    /\ clock = [c \in AllCallers |-> NoWait]
    /\ toolRet = [c \in AllCallers |-> NoRet]

----------------------------------------------------------------------------
(* UnityConnection.connect and disconnect, on the heap H = [conns, socks]  *)

Heap(cs, ss) == [conns |-> cs, socks |-> ss]

(* connect(): [H, ok], where up says whether the remote side accepts       *)
(* connections at its address when the attempt is made.  The socket of a   *)
(* failed attempt is the handle only inside connect(), which sets the      *)
(* attribute back to None without closing it: socks holds the sockets that *)
(* got connected.                                                          *)
(* a connect() that keeps the socket of a failed attempt as its handle *)
ConnectKeepingSocket(H, k, up) ==
    IF H.conns[k].sock # 0
    THEN [H |-> H, ok |-> TRUE]
    ELSE [H |-> Heap([H.conns EXCEPT ![k].sock = Len(H.socks) + 1],
                     Append(H.socks, [NewSock EXCEPT !.owner = k,
                                                     !.peer = IF up /\ H.conns[k].target = cfg
                                                              THEN "open" ELSE "none"])),
          ok |-> up /\ H.conns[k].target = cfg]

(* a connect() that opens a socket whether or not it holds one *)
ConnectAnew(H, k, up) ==
    IF up /\ H.conns[k].target = cfg
    THEN [H |-> Heap([H.conns EXCEPT ![k].sock = Len(H.socks) + 1],
                     Append(H.socks, [NewSock EXCEPT !.owner = k])),
          ok |-> TRUE]
    ELSE [H |-> Heap([H.conns EXCEPT ![k].sock = 0], H.socks), ok |-> FALSE]

Connect(H, k, up) ==
    IF H.conns[k].sock # 0
    THEN [H |-> H, ok |-> TRUE]
    ELSE IF up /\ H.conns[k].target = cfg
    THEN [H |-> Heap([H.conns EXCEPT ![k].sock = Len(H.socks) + 1],
                     Append(H.socks, [NewSock EXCEPT !.owner = k])),
          ok |-> TRUE]
    ELSE [H |-> Heap([H.conns EXCEPT ![k].sock = 0], H.socks), ok |-> FALSE]

(* what close() may do: return (NoExc), or raise *)
NoExc == [none |-> TRUE]
CloseOutcomes == {NoExc, Exc("OSError", << Lt("Bad file descriptor") >>)}

(* a disconnect() without its try statement *)
DisconnectPropagating(H, k, e) ==
    IF H.conns[k].sock # 0
    THEN IF e = NoExc
         THEN [H |-> Heap([H.conns EXCEPT ![k].sock = 0],
                          [H.socks EXCEPT ![H.conns[k].sock].closes = @ + 1]),
               exc |-> NoExc]
         ELSE [H |-> Heap(H.conns, [H.socks EXCEPT ![H.conns[k].sock].closes = @ + 1]),
               exc |-> e]
    ELSE [H |-> H, exc |-> NoExc]

(* disconnect(), with e what close() does: [H, exc], exc the exception it  *)
(* raises to its caller.  close() is called once, then the handle is None, *)
(* whether or not close() raised.                                          *)
Disconnect(H, k, e) ==
    IF H.conns[k].sock # 0
    THEN [H |-> Heap([H.conns EXCEPT ![k].sock = 0],
                     [H.socks EXCEPT ![H.conns[k].sock].closes = @ + 1]),
          exc |-> NoExc]
    ELSE [H |-> H, exc |-> NoExc]

(* get_unity_connection(): [H, registry, ok, attempts] *)
NewConnection(H) == Heap(Append(H.conns, [target |-> DefaultTarget, sock |-> 0]), H.socks)

(* a registry that gives up after the first failed connect() *)
GetUnityConnectionNoRetry(H, reg, up) ==
    LET H0 == IF reg = 0 THEN NewConnection(H) ELSE H
        k0 == IF reg = 0 THEN Len(H0.conns) ELSE reg
        r1 == Connect(H0, k0, up)
    IN [H |-> r1.H, registry |-> k0, ok |-> r1.ok, attempts |-> 1]

(* a registry that discards a Connection without a handle *)
GetUnityConnectionFresh(H, reg, up) ==
    IF reg # 0 /\ H.conns[reg].sock # 0
    THEN [H |-> H, registry |-> reg, ok |-> TRUE, attempts |-> 1]
    ELSE LET H0 == NewConnection(H)
             k0 == Len(H0.conns)
             r1 == Connect(H0, k0, up)
         IN [H |-> r1.H, registry |-> k0, ok |-> r1.ok, attempts |-> 1]

(* a registry that makes a Connection for every call *)
GetUnityConnectionPerCall(H, reg, up) ==
    LET H0 == NewConnection(H)
        k0 == Len(H0.conns)
        r1 == Connect(H0, k0, up)
    IN [H |-> r1.H, registry |-> k0, ok |-> r1.ok, attempts |-> 1]

GetUnityConnection(H, reg, up) ==
    LET H0 == IF reg = 0 THEN NewConnection(H) ELSE H
        k0 == IF reg = 0 THEN Len(H0.conns) ELSE reg
        r1 == Connect(H0, k0, up)
    IN IF r1.ok
       THEN [H |-> r1.H, registry |-> k0, ok |-> TRUE, attempts |-> 1]
       ELSE LET H1 == NewConnection(r1.H)
                k1 == Len(H1.conns)
                r2 == Connect(H1, k1, up)
            IN [H |-> r2.H, registry |-> k1, ok |-> r2.ok, attempts |-> 2]

(* the model's bounds on what is constructed *)
WithinBounds(H) == Len(H.socks) <= MaxSocks /\ Len(H.conns) <= MaxConns

(* A socket that no Connection and no running receiver refers to can never *)
(* be read or written again: what is in flight on it is dropped.  Which    *)
(* document a socket carried last is recorded with the call that read it.  *)
Referenced(s, cs, pcs, rs) ==
    \/ \E k \in 1..Len(cs) : cs[k].sock = s
    \/ \E c \in AllCallers : pcs[c] = "recv" /\ rs[c] = s

Forget(ss, cs, pcs, rs) ==
    [s \in 1..Len(ss) |->
        IF ~Referenced(s, cs, pcs, rs)
        THEN [ss[s] EXCEPT !.peer = "none", !.timed = FALSE, !.wire = <<>>,
                           !.inbox = <<>>, !.doc = 0, !.re = <<>>]
        ELSE IF \E c \in AllCallers : pcs[c] = "recv" /\ rs[c] = s THEN ss[s]
        ELSE [ss[s] EXCEPT !.doc = 0, !.re = <<>>]]

----------------------------------------------------------------------------
(* How a call ended *)

BufferSize == 8192

(* kind "ret" with the value val, or "exc" with the exception exc raised   *)
(* to the caller; cause is the exception raised inside send_command's try  *)
(* statement, conn and sock the Connection and the socket the call used,   *)
(* buf the receiver's buffer when it ended, doc the document the remote    *)
(* wrote last on that socket, attempts the connect() calls                 *)
(* get_unity_connection made, up whether the remote accepted connections,  *)
(* split whether the receiver's list held more than one chunk, re the     *)
(* request the remote answered with doc                                    *)
Outcome(kind, api, val, exc, cause, k, s, buf, d, n, up) ==
    [kind |-> kind, api |-> api, val |-> val, exc |-> exc, cause |-> cause, conn |-> k,
     sock |-> s, buf |-> buf, doc |-> d, attempts |-> n, up |-> up, split |-> FALSE,
     re |-> <<>>]

(* a tool function without its except clause *)
ToolReturnRaising(cl, kind, val, exc) ==
    IF cl.tool = "send_command" THEN NoRet
    ELSE IF kind = "ret" THEN [text |-> JsonDumps(val)]
    ELSE NoRet

(* the tool functions: json.dumps(result), or the prefix and str(e) *)
ToolReturn(cl, kind, val, exc) ==
    IF cl.tool = "send_command" THEN NoRet
    ELSE IF kind = "ret" THEN [text |-> JsonDumps(val)]
    ELSE [text |-> << Lt(ToolErrorPrefix(cl.tool)) >> \o exc.msg]

(* send_command of caller c ends on the heap H: with the value val, or     *)
(* raising exc after clearing the handle when clear is set                 *)
Finish(c, H, kind, val, exc, cause, clear, s, buf, event) ==
    LET k == held[c]
        cs1 == IF clear THEN [H.conns EXCEPT ![k].sock = 0] ELSE H.conns
        pc1 == [pc EXCEPT ![c] = "done"]
    IN /\ conns' = cs1
       /\ socks' = Forget(H.socks, cs1, pc1, [rsock EXCEPT ![c] = 0])
       /\ pc' = pc1
       /\ rsock' = [rsock EXCEPT ![c] = 0]
       /\ chunks' = [chunks EXCEPT ![c] = <<>>]
       /\ ev' = [ev EXCEPT ![c] = event]
       /\ outcome' = [outcome EXCEPT ![c] =
              [Outcome(kind, "send_command", val, exc, cause, k, s, buf,
                       IF s = 0 THEN 0 ELSE H.socks[s].doc, 0, FALSE)
               EXCEPT !.split = event = "chunk" /\ chunks[c] # <<>>,
                      !.re = IF s = 0 THEN <<>> ELSE H.socks[s].re]]
       /\ toolRet' = [toolRet EXCEPT ![c] = ToolReturn(call[c], kind, val, exc)]
       /\ UNCHANGED << cfg, phase, registry, call, held, clock >>

FinishRaise(c, H, e, s, buf, event) ==
    LET h == Handler(e) IN Finish(c, H, "exc", NoVal, h.exc, e, h.clear, s, buf, event)

----------------------------------------------------------------------------
(* server_lifespan *)

(* a lifespan that gives up when the start-up connection fails *)
StartupStrict(up) ==
    /\ phase = "starting"
    /\ LET r == GetUnityConnection(Heap(conns, socks), registry, up) IN
       /\ WithinBounds(r.H)
       /\ registry' = r.registry
       /\ conns' = r.H.conns
       /\ socks' = Forget(r.H.socks, r.H.conns, pc, rsock)
       /\ phase' = IF r.ok THEN "running" ELSE "stopped"
    /\ UNCHANGED << cfg, callerVars >>

Startup(up) ==
    /\ phase = "starting"
    /\ LET r == GetUnityConnection(Heap(conns, socks), registry, up) IN
       /\ WithinBounds(r.H)
       /\ registry' = r.registry
       /\ conns' = r.H.conns
       /\ socks' = Forget(r.H.socks, r.H.conns, pc, rsock)
    /\ phase' = "running"
    /\ UNCHANGED << cfg, callerVars >>

Shutdown(e) ==
    /\ phase = "running"
    /\ \A c \in AllCallers : pc[c] = "idle"
    /\ phase' = "stopped"
    /\ LET H == IF registry # 0 THEN Disconnect(Heap(conns, socks), registry, e).H
                ELSE Heap(conns, socks)
       IN /\ conns' = H.conns
          /\ socks' = Forget(H.socks, H.conns, pc, rsock)
    /\ UNCHANGED << cfg, registry, callerVars >>

----------------------------------------------------------------------------
(* A tool function, or a caller of the API, up to the Connection it gets   *)
(* from get_unity_connection                                               *)

Begin(c, cl, up) ==
    /\ phase = "running"
    /\ pc[c] = "idle"
    /\ LET r == GetUnityConnection(Heap(conns, socks), registry, up)
           e == Exc("ConnectionError", << Lt("Failed to connect to Unity") >>)
       IN /\ WithinBounds(r.H)
          /\ registry' = r.registry
          /\ conns' = r.H.conns
          /\ socks' = Forget(r.H.socks, r.H.conns, pc, rsock)
          /\ IF r.ok
             THEN /\ pc' = [pc EXCEPT ![c] = "send"]
                  /\ call' = [call EXCEPT ![c] = cl]
                  /\ held' = [held EXCEPT ![c] = r.registry]
                  /\ outcome' = [outcome EXCEPT ![c] =
                         Outcome("ret", "get_unity_connection", NoVal, NoExc, NoExc,
                                 r.registry, r.H.conns[r.registry].sock, <<>>, 0, r.attempts, up)]
                  /\ toolRet' = [toolRet EXCEPT ![c] = NoRet]
             ELSE /\ outcome' = [outcome EXCEPT ![c] =
                         Outcome("exc", "get_unity_connection", NoVal, e, NoExc,
                                 r.registry, 0, <<>>, 0, r.attempts, up)]
                  /\ toolRet' = [toolRet EXCEPT ![c] = ToolReturn(cl, "exc", NoVal, e)]
                  /\ pc' = [pc EXCEPT ![c] = "done"]
                  /\ call' = [call EXCEPT ![c] = cl]
                  /\ UNCHANGED held
    /\ UNCHANGED << cfg, phase, rsock, chunks, ev, clock >>

(* the caller takes the result of the call that has just ended *)
Return(c) ==
    /\ pc[c] = "done"
    /\ pc' = [pc EXCEPT ![c] = "idle"]
    /\ outcome' = [outcome EXCEPT ![c] = NoOutcome]
    /\ toolRet' = [toolRet EXCEPT ![c] = NoRet]
    /\ ev' = [ev EXCEPT ![c] = "none"]
    /\ call' = [call EXCEPT ![c] = NoCall]
    /\ clock' = [clock EXCEPT ![c] = NoWait]
    /\ UNCHANGED << cfg, phase, registry, conns, socks, held, rsock, chunks >>

(* send_command called on the Connection the caller still holds *)
ApiSend(c, cl) ==
    /\ phase = "running"
    /\ pc[c] = "idle"
    /\ held[c] # 0
    /\ held[c] = registry
    /\ pc' = [pc EXCEPT ![c] = "send"]
    /\ call' = [call EXCEPT ![c] = cl]
    /\ outcome' = [outcome EXCEPT ![c] = NoOutcome]
    /\ toolRet' = [toolRet EXCEPT ![c] = NoRet]
    /\ UNCHANGED << cfg, phase, registry, conns, socks, held, rsock, chunks, ev, clock >>

(* connect() and disconnect() called on the Connection the caller holds *)
ApiConnect(c, up) ==
    /\ phase = "running"
    /\ pc[c] = "idle"
    /\ held[c] # 0
    /\ held[c] = registry
    /\ LET r == Connect(Heap(conns, socks), held[c], up) IN
       /\ WithinBounds(r.H)
       /\ conns' = r.H.conns
       /\ socks' = Forget(r.H.socks, r.H.conns, pc, rsock)
       /\ outcome' = [outcome EXCEPT ![c] =
              Outcome("ret", "connect", Lit(IF r.ok THEN "true" ELSE "false"), NoExc, NoExc,
                      held[c], r.H.conns[held[c]].sock, <<>>, 0, 0, up)]
    /\ toolRet' = [toolRet EXCEPT ![c] = NoRet]
    /\ pc' = [pc EXCEPT ![c] = "done"]
    /\ UNCHANGED << cfg, phase, registry, call, held, rsock, chunks, ev, clock >>

ApiDisconnect(c, e) ==
    /\ phase = "running"
    /\ pc[c] = "idle"
    /\ held[c] # 0
    /\ held[c] = registry
    /\ LET r == Disconnect(Heap(conns, socks), held[c], e) IN
       /\ conns' = r.H.conns
       /\ socks' = Forget(r.H.socks, r.H.conns, pc, rsock)
       /\ outcome' = [outcome EXCEPT ![c] =
              Outcome(IF r.exc = NoExc THEN "ret" ELSE "exc", "disconnect",
                      IF r.exc = NoExc THEN PyNone ELSE NoVal, r.exc,
                      IF conns[held[c]].sock # 0 THEN e ELSE NoExc,
                      held[c], conns[held[c]].sock, <<>>, 0, 0, FALSE)]
    /\ toolRet' = [toolRet EXCEPT ![c] = NoRet]
    /\ pc' = [pc EXCEPT ![c] = "done"]
    /\ UNCHANGED << cfg, phase, registry, call, held, rsock, chunks, ev, clock >>

----------------------------------------------------------------------------
(* send_command up to the receive loop *)

(* what sendall can do on a socket: write the bytes ("ok"); write them to  *)
(* a peer that is gone, which answers with a reset ("lost"); time out, on  *)
(* a socket an earlier call gave a timeout; raise BrokenPipeError          *)
SendOutcomes(sk) ==
    IF sk.peer = "open" THEN {"ok"} \cup (IF sk.timed THEN {"timeout"} ELSE {})
    ELSE IF sk.peer = "fin" THEN {"lost", "pipe"}
    ELSE {"pipe"}

SendCommand(c, o, up) ==
    /\ pc[c] = "send"
    /\ LET k == held[c]
           r == Connect(Heap(conns, socks), k, up)
           s == r.H.conns[k].sock
           bytes == CommandBytes(call[c].type, call[c].params)
       IN /\ WithinBounds(r.H)
          /\ IF ~r.ok
             THEN \* raised before the try statement: no handler runs
                  /\ o = "ok"
                  /\ Finish(c, r.H, "exc", NoVal,
                            Exc("ConnectionError", << Lt("Not connected to Unity") >>),
                            NoExc, FALSE, 0, <<>>, "none")
             ELSE /\ o \in SendOutcomes(r.H.socks[s])
                  /\ IF o \in {"ok", "lost"}
                     THEN /\ conns' = r.H.conns
                          /\ socks' = [r.H.socks EXCEPT ![s] =
                                 IF o = "ok"
                                 THEN [@ EXCEPT !.inbox = Append(@, bytes), !.timed = TRUE]
                                 ELSE [@ EXCEPT !.peer = "rst", !.wire = <<>>,
                                                !.timed = TRUE]]
                          /\ pc' = [pc EXCEPT ![c] = "recv"]
                          /\ rsock' = [rsock EXCEPT ![c] = s]
                          /\ chunks' = [chunks EXCEPT ![c] = <<>>]
                          /\ outcome' = [outcome EXCEPT ![c] = NoOutcome]
                          /\ clock' = [clock EXCEPT ![c] = NoWait]
                          /\ UNCHANGED << cfg, phase, registry, call, held, toolRet, ev >>
                     ELSE FinishRaise(c, r.H,
                                      IF o = "timeout"
                                      THEN Exc("timeout", << Lt("timed out") >>)
                                      ELSE Exc("BrokenPipeError", << Lt("Broken pipe") >>),
                                      s, <<>>, "send")

----------------------------------------------------------------------------
(* One recv of the receive loop, and all that follows it in send_command   *)
(* and in the tool when the loop ends                                      *)

AfterRecv(c, ss, r, event) ==
    LET H == Heap(conns, ss)
        s == rsock[c]
    IN IF r.st = "continue"
       THEN /\ chunks' = [chunks EXCEPT ![c] = r.buf]
            /\ ev' = [ev EXCEPT ![c] = event]
            /\ socks' = ss
            /\ clock' = [clock EXCEPT ![c].idle = 0]
            /\ UNCHANGED << cfg, phase, registry, conns, pc, call, held,
                            rsock, outcome, toolRet >>
       ELSE IF r.st = "return"
       THEN LET i == Interpret(r.buf) IN
            IF i.kind = "ret"
            THEN Finish(c, H, "ret", i.val, NoExc, NoExc, FALSE, s, r.buf, event)
            ELSE FinishRaise(c, H, i.exc, s, r.buf, event)
       ELSE FinishRaise(c, H, r.exc, s, r.buf, event)

Min(a, b) == IF a < b THEN a ELSE b

(* recv returns the next n bytes: as many as have arrived, at most         *)
(* buffer_size                                                             *)
RecvChunk(c, n) ==
    /\ pc[c] = "recv"
    /\ LET w == socks[rsock[c]].wire IN
       /\ n \in 1..Min(Len(w), BufferSize)
       /\ AfterRecv(c, [socks EXCEPT ![rsock[c]].wire = SubSeq(w, n + 1, Len(w))],
                    OnChunk(chunks[c], SubSeq(w, 1, n)), "chunk")

(* recv returns b'': the remote has closed and nothing is left to read *)
RecvEmpty(c) ==
    /\ pc[c] = "recv"
    /\ socks[rsock[c]].wire = <<>>
    /\ socks[rsock[c]].peer = "fin"
    /\ AfterRecv(c, socks, OnEmptyRead(chunks[c]), "empty")

(* a receiver that answers a timeout by writing the command again and      *)
(* reading on                                                              *)
RecvTimeoutRetrying(c) ==
    /\ pc[c] = "recv"
    /\ socks[rsock[c]].peer = "open"
    /\ Len(socks[rsock[c]].inbox) < 2
    /\ socks' = [socks EXCEPT ![rsock[c]].inbox =
                     Append(@, CommandBytes(call[c].type, call[c].params))]
    /\ ev' = [ev EXCEPT ![c] = "timeout"]
    /\ UNCHANGED << cfg, phase, registry, conns, pc, call, held,
                    rsock, chunks, outcome, toolRet, clock >>

(* recv raises socket.timeout: nothing arrived for the length of the       *)
(* timeout, whether or not the remote has more to send                     *)
RecvTimeout(c) ==
    /\ pc[c] = "recv"
    /\ socks[rsock[c]].peer = "open"
    /\ AfterRecv(c, socks, OnRecvTimeout(chunks[c]), "timeout")

RecvReset(c) ==
    /\ pc[c] = "recv"
    /\ socks[rsock[c]].peer = "rst"
    /\ AfterRecv(c, socks, OnRecvReset(chunks[c]), "reset")

----------------------------------------------------------------------------
(* The remote side and the network.  The end of a call and the caller's    *)
(* taking of its result are one moment: nothing happens in between.        *)

Quiet == \A c \in AllCallers : pc[c] # "done"
Live(s) == Quiet /\ Referenced(s, conns, pc, rsock)

RemoteReply(s, d) ==
    /\ Live(s)
    /\ socks[s].peer = "open"
    /\ socks[s].inbox # <<>>
    /\ socks' = [socks EXCEPT ![s].inbox = Tail(@), ![s].wire = @ \o Docs[d].bytes,
                              ![s].doc = d, ![s].re = Head(socks[s].inbox)]
    /\ UNCHANGED << cfg, phase, registry, conns, callerVars >>

(* the remote closes its end: after all it was to send (flushed), or      *)
(* before any of what no recv has returned yet                             *)
RemoteClose(s, flushed) ==
    /\ Live(s)
    /\ socks[s].peer = "open"
    /\ socks' = [socks EXCEPT ![s].peer = "fin",
                              ![s].wire = IF flushed THEN @ ELSE <<>>,
                              ![s].inbox = <<>>]
    /\ UNCHANGED << cfg, phase, registry, conns, callerVars >>

RemoteReset(s) ==
    /\ Live(s)
    /\ socks[s].peer \in {"open", "fin"}
    /\ socks' = [socks EXCEPT ![s].peer = "rst", ![s].wire = <<>>, ![s].inbox = <<>>]
    /\ UNCHANGED << cfg, phase, registry, conns, callerVars >>

Remote ==
    \/ \E s \in 1..Len(socks) : \E d \in DocIds : RemoteReply(s, d)
    \/ \E s \in 1..Len(socks) : \E flushed \in BOOLEAN : RemoteClose(s, flushed)
    \/ \E s \in 1..Len(socks) : RemoteReset(s)

----------------------------------------------------------------------------
(* The bridge with one caller *)

Caller(c) ==
    \/ \E cl \in Calls, up \in BOOLEAN : Begin(c, cl, up)
    \/ \E cl \in ApiCalls : ApiSend(c, cl)
    \/ \E up \in BOOLEAN : ApiConnect(c, up)
    \/ \E e \in CloseOutcomes : ApiDisconnect(c, e)
    \/ \E o \in {"ok", "lost", "timeout", "pipe"}, up \in BOOLEAN : SendCommand(c, o, up)
    \/ \E n \in 1..MaxChunk : RecvChunk(c, n)
    \/ RecvEmpty(c)
    \/ RecvTimeout(c)
    \/ RecvReset(c)
    \/ Return(c)

Next ==
    \/ \E up \in BOOLEAN : Startup(up)
    \/ \E e \in CloseOutcomes : Shutdown(e)
    \/ Caller(1)
    \/ Remote

Spec == Init /\ [][Next]_vars

----------------------------------------------------------------------------
(* The bridge with two callers, whose tool functions run at the same time  *)
(* on the one Connection of the registry: each caller has a tool of its    *)
(* own, the remote accepts connections and answers every request it reads, *)
(* in the order it reads them, with a success or with a failure            *)

CallOf(c) ==
    IF c = 1
    THEN [tool |-> "get_system_info", type |-> "core.GetSystemInfo", params |-> PyNone]
    ELSE [tool |-> "get_object_info", type |-> "object.GetObjectInfo",
          params |-> Obj(<< KV("name", Str("Cube")) >>)]

ConcurrentDocs == {2, 3}

(* recv returns one response of what has arrived, or all of it *)
ConcurrentReads(c) ==
    IF pc[c] = "recv"
    THEN {Len(Docs[d].bytes) : d \in ConcurrentDocs} \cup {Len(socks[rsock[c]].wire)}
    ELSE {}

ConcurrentCaller(c) ==
    \/ Begin(c, CallOf(c), TRUE)
    \/ \E o \in {"ok", "timeout"} : SendCommand(c, o, TRUE)
    \/ \E n \in ConcurrentReads(c) : RecvChunk(c, n)
    \/ RecvTimeout(c)
    \/ Return(c)

ConcurrentNext ==
    \/ Startup(TRUE)
    \/ \E c \in AllCallers : ConcurrentCaller(c)
    \/ \E s \in 1..Len(socks) : \E d \in ConcurrentDocs : RemoteReply(s, d)

ConcurrentSpec == Init /\ [][ConcurrentNext]_vars

----------------------------------------------------------------------------
(* The bridge with its clock: one caller, and the seconds it spends in     *)
(* recv.  settimeout(15.0) bounds each recv by itself: recv raises         *)
(* socket.timeout when nothing has arrived for that long since it was      *)
(* called, and every chunk it returns starts the next recv afresh.         *)

Timeout == 15

MaxWait == 40

WaitSteps == {5, 10}

(* dt seconds pass while the caller is blocked in recv *)
Wait(c, dt) ==
    /\ pc[c] = "recv"
    /\ clock[c].idle + dt <= Timeout
    /\ clock[c].total + dt <= MaxWait
    /\ clock' = [clock EXCEPT ![c] = [total |-> @.total + dt, idle |-> @.idle + dt]]
    /\ UNCHANGED << cfg, phase, registry, conns, socks,
                    pc, call, held, rsock, chunks, ev, outcome, toolRet >>

TimedRecvTimeout(c) ==
    /\ clock[c].idle = Timeout
    /\ RecvTimeout(c)

TimedDocs == {1}

TimedNext ==
    \/ Startup(TRUE)
    \/ Begin(1, CallOf(1), TRUE)
    \/ SendCommand(1, "ok", TRUE)
    \/ \E dt \in WaitSteps : Wait(1, dt)
    \/ \E n \in 1..MaxChunk : RecvChunk(1, n)
    \/ TimedRecvTimeout(1)
    \/ Return(1)
    \/ \E s \in 1..Len(socks) : \E d \in TimedDocs : RemoteReply(s, d)

TimedSpec == Init /\ [][TimedNext]_vars

----------------------------------------------------------------------------
(* The bridge with the tools that build their params from arguments: one   *)
(* caller of create_object and create_light, and a remote that answers     *)

CreateDocs == {1, 3}

(* recv returns all that has arrived *)
CreateReads(c) == IF pc[c] = "recv" THEN {Len(socks[rsock[c]].wire)} ELSE {}

CreateNext ==
    \/ Startup(TRUE)
    \/ \E cl \in CreateCalls : Begin(1, cl, TRUE)
    \/ SendCommand(1, "ok", TRUE)
    \/ \E s \in 1..Len(socks) : \E d \in CreateDocs : RemoteReply(s, d)
    \/ \E n \in CreateReads(1) : RecvChunk(1, n)
    \/ Return(1)

CreateSpec == Init /\ [][CreateNext]_vars

----------------------------------------------------------------------------
(* Properties of send_command and of the receiver *)

(* send_command of caller c has just ended *)
SendEnded(c) == pc[c] = "done" /\ outcome[c].api = "send_command"

(* the call read the response the remote wrote: all of it, nothing else *)
ReadWhole(c) == outcome[c].doc # 0 /\ outcome[c].buf = Docs[outcome[c].doc].bytes

(* document d is a JSON object whose success field is the literal b *)
SaysSuccess(d, b) ==
    /\ IsObj(Docs[d].val)
    /\ DictGet(Docs[d].val.obj, << P("success") >>, PyNone) = Lit(b)

DataOf(d) == DictGet(Docs[d].val.obj, << P("data") >>, EmptyObj)
ErrorOf(d) == DictGet(Docs[d].val.obj, << P("error") >>, PyNone)

IsHandle(s) == \E k \in 1..Len(conns) : conns[k].sock = s

(* C1: when the response has success false, the Connection's handle after  *)
(* the failed call is the live handle the call used                        *)
C1_HandleSurvivesRemoteError ==
    \A c \in AllCallers :
        (SendEnded(c) /\ ReadWhole(c) /\ SaysSuccess(outcome[c].doc, "false"))
        => /\ outcome[c].sock # 0
           /\ conns[outcome[c].conn].sock = outcome[c].sock

(* C2: a socket that is no Connection's handle any more has been closed,   *)
(* and no socket is closed twice                                           *)
C2_SocketsClosedExactlyOnce ==
    \A s \in 1..Len(socks) :
        /\ socks[s].closes <= 1
        /\ ~IsHandle(s) => socks[s].closes = 1

(* C3: when the response read has success true, send_command returns its   *)
(* data value, and an empty object when it has no data key                 *)
C3_ReturnsData ==
    \A c \in AllCallers :
        (SendEnded(c) /\ ReadWhole(c) /\ SaysSuccess(outcome[c].doc, "true"))
        => /\ outcome[c].kind = "ret"
           /\ outcome[c].val = DataOf(outcome[c].doc)

C3_Witness ==
    \E c \in AllCallers :
        /\ SendEnded(c) /\ ReadWhole(c)
        /\ outcome[c].doc = 2
        /\ outcome[c].kind = "ret"
        /\ outcome[c].val = EmptyObj

(* C4: when the response read has success false, send_command raises an    *)
(* exception whose message holds the response's error value, and returns   *)
(* nothing, with or without a data key in the response                     *)
C4_RemoteErrorRaises ==
    \A c \in AllCallers :
        (SendEnded(c) /\ ReadWhole(c) /\ SaysSuccess(outcome[c].doc, "false"))
        => /\ outcome[c].kind = "exc"
           /\ outcome[c].val = NoVal
           /\ \E i \in 1..Len(outcome[c].exc.msg) :
                  outcome[c].exc.msg[i] = [val |-> ErrorOf(outcome[c].doc)]

C4_Witness ==
    \E c \in AllCallers :
        /\ SendEnded(c) /\ ReadWhole(c)
        /\ outcome[c].doc = 4
        /\ outcome[c].kind = "exc"

(* the call failed on the socket (sendall raised; recv returned b'', timed *)
(* out or raised) or on bytes that are not UTF-8                           *)
SocketOrFramingFailure(c) ==
    /\ SendEnded(c)
    /\ outcome[c].kind = "exc"
    /\ \/ ev[c] \in {"send", "empty", "timeout", "reset"}
       \/ outcome[c].cause # NoExc /\ outcome[c].cause.cls = "UnicodeDecodeError"

(* C5: a send_command that fails on a socket error or a framing failure    *)
(* leaves the Connection without a handle                                  *)
C5_FailureClearsHandle ==
    \A c \in AllCallers :
        SocketOrFramingFailure(c) => conns[outcome[c].conn].sock = 0

C5_Witness ==
    \E c \in AllCallers :
        /\ SocketOrFramingFailure(c)
        /\ outcome[c].cause.cls = "UnicodeDecodeError"
        /\ outcome[c].sock # 0
        /\ conns[outcome[c].conn].sock = 0

(* the request of caller c is written and not answered yet *)
InFlight(c) == pc[c] = "recv" /\ socks[rsock[c]].inbox # <<>>
SentBytes(c) == LET ib == socks[rsock[c]].inbox IN ib[Len(ib)]
SentArgs(c) == IF call[c].params = PyNone THEN EmptyObj ELSE call[c].params

(* the bytes b are a JSON object with the two fields type and parameters,  *)
(* type being the string t                                                 *)
IsEnvelope(b, t) ==
    /\ Utf8Ok(b)
    /\ JsonParses(Utf8Join(b))
    /\ LET v == JsonLoads(Utf8Join(b)) IN
       /\ IsObj(v)
       /\ Len(v.obj) = 2
       /\ HasKey(v.obj, << P("type") >>)
       /\ HasKey(v.obj, << P("parameters") >>)
       /\ DictGet(v.obj, << P("type") >>, PyNone) = Str(t)

ParametersOf(b) == DictGet(JsonLoads(Utf8Join(b)).obj, << P("parameters") >>, PyNone)

Parses(b) == Utf8Ok(b) /\ JsonParses(Utf8Join(b))
NoProperPrefixParses(b) == \A n \in 1..(Len(b) - 1) : ~Parses(SubSeq(b, 1, n))
IsSuffix(x, y) == Len(x) <= Len(y) /\ SubSeq(y, Len(y) - Len(x) + 1, Len(y)) = x

(* C7: while the receive loop goes on, the buffer holds every byte read so *)
(* far and does not parse (the receiver returned at the first read after   *)
(* which it did); and a successful response none of whose proper prefixes  *)
(* parses, once read whole in any number of chunks, makes send_command     *)
(* return its data at that read                                            *)
C7_AccumulatesUntilParse ==
    \A c \in AllCallers :
        /\ pc[c] = "recv"
           => /\ ~Parses(chunks[c])
              /\ LET sk == socks[rsock[c]] IN
                 (sk.peer = "open" /\ sk.doc # 0)
                 => IsSuffix(Docs[sk.doc].bytes, chunks[c] \o sk.wire)
        /\ (/\ SendEnded(c) /\ ReadWhole(c)
            /\ SaysSuccess(outcome[c].doc, "true")
            /\ NoProperPrefixParses(outcome[c].buf))
           => /\ ev[c] = "chunk"
              /\ outcome[c].kind = "ret"
              /\ outcome[c].val = DataOf(outcome[c].doc)

C7_Witness ==
    \E c \in AllCallers :
        /\ SendEnded(c) /\ ReadWhole(c)
        /\ outcome[c].split
        /\ outcome[c].doc = 1
        /\ outcome[c].kind = "ret"
        /\ outcome[c].val = VersionObj

ClosedBeforeData == Exc("Exception", << Lt("Connection closed before receiving any data") >>)
NoData == Exc("Exception", << Lt("No data received") >>)
IncompleteResponse == Exc("Exception", << Lt("Incomplete JSON response received") >>)

(* C8: a recv that returns b'' or times out ends the receive loop, and     *)
(* when nothing had been received the receiver raises: "Connection closed  *)
(* before receiving any data" after b'', "No data received" after the      *)
(* timeout; send_command returns no value                                  *)
C8_NothingReceivedRaises ==
    \A c \in AllCallers :
        /\ ev[c] \in {"empty", "timeout"} => pc[c] = "done"
        /\ (SendEnded(c) /\ ev[c] \in {"empty", "timeout"} /\ outcome[c].buf = <<>>)
           => /\ outcome[c].kind = "exc"
              /\ outcome[c].val = NoVal
              /\ outcome[c].cause = IF ev[c] = "empty" THEN ClosedBeforeData ELSE NoData

C8_Witness ==
    \E c \in AllCallers :
        /\ SendEnded(c)
        /\ ev[c] = "empty"
        /\ outcome[c].buf = <<>>
        /\ outcome[c].cause = ClosedBeforeData

(* a recv timed out on a buffer that holds bytes: the receiver raised      *)
(* "Incomplete JSON response received" and the handle is cleared           *)
TimeoutMidStream(c) == SendEnded(c) /\ ev[c] = "timeout" /\ outcome[c].buf # <<>>

IncompleteAndCleared(c) ==
    /\ ~Parses(outcome[c].buf)
    /\ outcome[c].kind = "exc"
    /\ outcome[c].cause = IncompleteResponse
    /\ outcome[c].conn = registry
    /\ conns[outcome[c].conn].sock = 0

(* a command issued while the Connection has no handle connects first:     *)
(* get_unity_connection returns it with a socket created in this step, or *)
(* raises; send_command writes to a socket created in this step            *)
ConnectsFirst(c) ==
    /\ (/\ pc[c] = "idle" /\ registry # 0 /\ conns[registry].sock = 0
        /\ pc'[c] \in {"send", "done"}
        /\ outcome'[c] # NoOutcome
        /\ outcome'[c].api = "get_unity_connection")
       => IF outcome'[c].kind = "ret"
          THEN /\ Len(socks') = Len(socks) + 1
               /\ outcome'[c].sock = Len(socks')
               /\ conns'[registry'].sock = Len(socks')
          ELSE Len(socks') = Len(socks)
    /\ (pc[c] = "send" /\ conns[held[c]].sock = 0 /\ pc'[c] = "recv")
       => /\ Len(socks') = Len(socks) + 1
          /\ rsock'[c] = Len(socks')

(* C9: a recv that times out on a non-empty buffer that does not parse     *)
(* makes the receiver raise "Incomplete JSON response received" and        *)
(* send_command clear the handle; the next command connects before it      *)
(* sends                                                                   *)
C9_TimeoutMidStream ==
    /\ [](\A c \in AllCallers : TimeoutMidStream(c) => IncompleteAndCleared(c))
    /\ [][\A c \in AllCallers : ConnectsFirst(c)]_vars

C9_Witness ==
    \E c \in AllCallers :
        /\ TimeoutMidStream(c)
        /\ outcome[c].sock # 0
        /\ IncompleteAndCleared(c)

(* C10: no failure leaves the bridge unable to reach a remote that accepts *)
(* connections: get_unity_connection, called while the remote accepts      *)
(* them at the configured address, returns a connected Connection          *)
C10_ReachableRemoteIsReached ==
    \A c \in AllCallers :
        (/\ pc[c] \in {"send", "done"}
         /\ outcome[c] # NoOutcome
         /\ outcome[c].api = "get_unity_connection"
         /\ outcome[c].up)
        => outcome[c].kind = "ret"

----------------------------------------------------------------------------
(* Properties of the registry and of connect and disconnect *)

(* Connection k lost a socket to a failure: it holds no handle, and a      *)
(* socket it created was dropped without close()                           *)
Invalidated(k) ==
    /\ k # 0
    /\ conns[k].sock = 0
    /\ \E s \in 1..Len(socks) : socks[s].owner = k /\ socks[s].closes = 0

(* this step is a get_unity_connection of caller c that returns *)
GotConnection(c) ==
    /\ pc[c] = "idle"
    /\ pc'[c] = "send"
    /\ outcome'[c] # NoOutcome
    /\ outcome'[c].api = "get_unity_connection"

(* C11 as stated: after a failure invalidated the registry's Connection,   *)
(* the Connection the next successful get_unity_connection returns is a    *)
(* newly constructed one                                                   *)
C11_NeverReconnectedInPlace ==
    [][\A c \in AllCallers :
          (Invalidated(registry) /\ GotConnection(c))
          => /\ registry' # registry
             /\ Len(conns') = Len(conns) + 1
             /\ registry' = Len(conns')]_vars

(* C11: after a failure invalidated the registry's Connection, the next    *)
(* get_unity_connection calls connect() on that object first; when that    *)
(* succeeds it returns the same object with a new socket, and only when it *)
(* fails a newly constructed Connection                                    *)
C11_ReconnectsInPlace ==
    [][\A c \in AllCallers :
          (Invalidated(registry) /\ GotConnection(c))
          => IF outcome'[c].attempts = 1
             THEN /\ registry' = registry
                  /\ Len(conns') = Len(conns)
                  /\ Len(socks') = Len(socks) + 1
                  /\ conns'[registry].sock = Len(socks')
             ELSE /\ Len(conns') = Len(conns) + 1
                  /\ registry' = Len(conns')]_vars

C11_Witness ==
    \E c \in AllCallers :
        /\ pc[c] = "send"
        /\ outcome[c] # NoOutcome
        /\ outcome[c].api = "get_unity_connection"
        /\ outcome[c].kind = "ret"
        /\ outcome[c].attempts = 1
        /\ Len(socks) = 2
        /\ socks[1].owner = outcome[c].conn /\ socks[1].closes = 0
        /\ socks[2].owner = outcome[c].conn
        /\ conns[outcome[c].conn].sock = 2

(* this step is a connect() that caller c calls on the Connection it holds *)
CalledConnect(c) ==
    /\ pc[c] = "idle"
    /\ pc'[c] = "done"
    /\ outcome'[c].api = "connect"

(* C12: connect() on a Connection that holds a handle returns True,        *)
(* creates no socket and leaves the handle, and every socket, as it was    *)
C12_ConnectIdempotent ==
    [][\A c \in AllCallers :
          (CalledConnect(c) /\ conns[held[c]].sock # 0)
          => /\ outcome'[c].val = Lit("true")
             /\ conns' = conns
             /\ socks' = socks]_vars

C12_Witness ==
    \E c \in AllCallers :
        /\ pc[c] = "done"
        /\ outcome[c].api = "connect"
        /\ outcome[c].val = Lit("true")
        /\ outcome[c].sock # 0
        /\ conns[outcome[c].conn].sock = outcome[c].sock
        /\ socks[outcome[c].sock].timed
        /\ Len(socks) = 1

(* get_unity_connection of caller c has just ended *)
GetEnded(c) ==
    /\ pc[c] \in {"send", "done"}
    /\ outcome[c] # NoOutcome
    /\ outcome[c].api = "get_unity_connection"

FailedToConnect == Exc("ConnectionError", << Lt("Failed to connect to Unity") >>)

(* C13: get_unity_connection returns the registry's Connection holding a   *)
(* handle, or raises ConnectionError after exactly two connect() calls,    *)
(* the second on a Connection constructed in the call; it never makes more *)
(* than two; and the registry names one Connection or none                 *)
C13_GetConnection ==
    /\ registry \in 0..Len(conns)
    /\ \A c \in AllCallers :
          GetEnded(c)
          => /\ outcome[c].attempts \in {1, 2}
             /\ outcome[c].conn = registry
             /\ IF outcome[c].kind = "ret"
                THEN /\ conns[registry].sock # 0
                     /\ outcome[c].sock = conns[registry].sock
                ELSE /\ outcome[c].kind = "exc"
                     /\ outcome[c].exc = FailedToConnect
                     /\ outcome[c].attempts = 2
                     /\ registry = Len(conns)
                     /\ conns[registry] = [target |-> DefaultTarget, sock |-> 0]

C13_Witness ==
    \E c \in AllCallers :
        /\ GetEnded(c)
        /\ outcome[c].kind = "exc"
        /\ outcome[c].attempts = 2
        /\ registry = Len(conns)
        /\ Len(conns) >= 2

NotConnected == Exc("ConnectionError", << Lt("Not connected to Unity") >>)

(* C14: send_command on a Connection without a handle calls connect()     *)
(* first: it goes on to write its request to a socket created in this     *)
(* step, or it raises ConnectionError("Not connected to Unity") with no    *)
(* socket written to and the Connection still without a handle             *)
C14_NotConnected ==
    [][\A c \in AllCallers :
          (pc[c] = "send" /\ conns[held[c]].sock = 0 /\ pc'[c] # "send")
          => \/ /\ pc'[c] = "recv"
                /\ Len(socks') = Len(socks) + 1
                /\ rsock'[c] = Len(socks')
                /\ conns'[held[c]].sock = Len(socks')
                /\ socks'[Len(socks')].inbox =
                       << CommandBytes(call[c].type, call[c].params) >>
             \/ /\ pc'[c] = "done"
                /\ outcome'[c].api = "send_command"
                /\ outcome'[c].kind = "exc"
                /\ outcome'[c].exc = NotConnected
                /\ socks' = socks
                /\ conns' = conns]_vars

C14_Witness ==
    \E c \in AllCallers :
        /\ SendEnded(c)
        /\ outcome[c].kind = "exc"
        /\ outcome[c].exc = NotConnected
        /\ outcome[c].sock = 0
        /\ conns[outcome[c].conn].sock = 0

----------------------------------------------------------------------------
(* Properties of the tool functions *)

(* the tool call of caller c has just ended, in get_unity_connection or in *)
(* send_command                                                            *)
ToolEnded(c) ==
    /\ pc[c] = "done"
    /\ call[c] \in ToolCalls
    /\ outcome[c].api \in {"get_unity_connection", "send_command"}

(* C15: a tool call never raises: it returns the JSON text of the data     *)
(* send_command returned, or the text made of the tool's prefix and the    *)
(* message of the exception get_unity_connection or send_command raised    *)
C15_ToolsReturnStrings ==
    \A c \in AllCallers :
        ToolEnded(c)
        => /\ toolRet[c] # NoRet
           /\ IF outcome[c].kind = "ret"
              THEN /\ JsonParses(toolRet[c].text)
                   /\ JsonLoads(toolRet[c].text) = outcome[c].val
              ELSE /\ outcome[c].kind = "exc"
                   /\ toolRet[c].text =
                          << Lt(ToolErrorPrefix(call[c].tool)) >> \o outcome[c].exc.msg

C15_Witness ==
    \E c \in AllCallers :
        /\ ToolEnded(c)
        /\ toolRet[c] = [text |-> << Lt("Error getting object info: "),
                                     Lt("Communication error with Unity: "),
                                     [val |-> Str("object not found")] >>]

(* this step is a disconnect() that caller c calls on the Connection it    *)
(* holds                                                                   *)
CalledDisconnect(c) ==
    /\ pc[c] = "idle"
    /\ pc'[c] = "done"
    /\ outcome'[c].api = "disconnect"

(* C16: disconnect() returns with the Connection holding no handle, also   *)
(* when close() raised; on a Connection that holds a handle it calls       *)
(* close() once on that socket, on one that holds none it changes nothing  *)
C16_DisconnectClears ==
    [][\A c \in AllCallers :
          CalledDisconnect(c)
          => /\ outcome'[c].kind = "ret"
             /\ outcome'[c].exc = NoExc
             /\ conns'[held[c]].sock = 0
             /\ IF conns[held[c]].sock = 0
                THEN conns' = conns /\ socks' = socks
                ELSE socks'[conns[held[c]].sock].closes =
                         socks[conns[held[c]].sock].closes + 1]_vars

C16_Witness ==
    \E c \in AllCallers :
        /\ pc[c] = "done"
        /\ outcome[c].api = "disconnect"
        /\ outcome[c].kind = "ret"
        /\ outcome[c].cause \in CloseOutcomes \ {NoExc}
        /\ outcome[c].sock # 0
        /\ socks[outcome[c].sock].closes = 1
        /\ conns[outcome[c].conn].sock = 0

----------------------------------------------------------------------------
(* Properties of the receiver, continued *)

(* C17: a chunk after which the buffer does not decode as UTF-8 JSON makes *)
(* the receiver read on, also when the buffer ends inside a multi-byte     *)
(* character: the receiver ends at a chunk only by returning a buffer that *)
(* parses                                                                  *)
C17_UndecodableContinues ==
    \A c \in AllCallers :
        (SendEnded(c) /\ ev[c] = "chunk") => Parses(outcome[c].buf)

(* the bytes b are a JSON object followed by bytes that are not blanks *)
TrailingAfterObject(b) ==
    /\ Utf8Ok(b)
    /\ LET r == ParseValue(Utf8Join(b)) IN
       r.ok /\ IsObj(r.v) /\ SkipWs(r.rest) # <<>>

----------------------------------------------------------------------------
(* Two callers on one Connection (ConcurrentSpec) *)

(* the requests written on the socket s that the remote has not answered *)
RequestsInFlight(s) == Len(socks[s].inbox)

(* the callers that have obtained a Connection *)
CallersSoFar == {c \in AllCallers : held[c] # 0}

(* the bytes of the command the caller c sends *)
RequestOf(c) == CommandBytes(call[c].type, call[c].params)

(* C19: nothing in send_command keeps two callers apart.  On no handle are *)
(* more requests in flight than callers have obtained the Connection: at   *)
(* most one while a single caller uses it, and two once a second caller    *)
(* does; a caller may then read the response to the other caller's command *)
C19_InFlightPerCaller ==
    \A s \in 1..Len(socks) : RequestsInFlight(s) <= Cardinality(CallersSoFar)

(* the caller c has returned, as its own result, the response the remote   *)
(* wrote to the command of the caller d, who still waits on the same       *)
(* handle, while the request of c is the one not answered yet              *)
C19_Witness ==
    \E c, d \in AllCallers :
        /\ c # d
        /\ SendEnded(c) /\ outcome[c].kind = "ret" /\ ReadWhole(c)
        /\ pc[d] = "recv" /\ rsock[d] = outcome[c].sock
        /\ held[c] = held[d]
        /\ outcome[c].re = RequestOf(d)
        /\ outcome[c].re # RequestOf(c)
        /\ socks[rsock[d]].inbox = << RequestOf(c) >>

----------------------------------------------------------------------------
(* The time a call spends in its receive loop (TimedSpec) *)

(* C20: a send_command call is blocked in recv for no more than one        *)
(* timeout, 15 seconds, in all, whatever the remote does                   *)
C20_BlocksAtMostOneTimeout ==
    \A c \in AllCallers : clock[c].total <= Timeout

----------------------------------------------------------------------------
(* Responses and the commands they answer *)

(* the Connection k reconnected: the socket s is one its connect() created *)
(* after an earlier one, which was dropped without being closed            *)
Reconnected(k, s) ==
    \E t \in 1..Len(socks) :
        /\ t < s
        /\ socks[t].owner = k /\ socks[s].owner = k
        /\ socks[t].closes = 0

(* C21: what send_command returns was read from the socket the same call  *)
(* wrote its command to, and is the response the remote wrote to that      *)
(* command: a socket whose receive failed is dropped with the handle, so a *)
(* late response on it is never taken for the response to a later command  *)
C21_ReturnsOwnResponse ==
    \A c \in AllCallers :
        (SendEnded(c) /\ outcome[c].kind = "ret") =>
            /\ conns[outcome[c].conn].sock = outcome[c].sock
            /\ socks[outcome[c].sock].owner = outcome[c].conn
            /\ outcome[c].re = RequestOf(c)
            /\ socks[outcome[c].sock].inbox = <<>>

(* a command returns its own response on a socket the Connection opened    *)
(* after it had dropped an earlier one                                     *)
C21_Witness ==
    \E c \in AllCallers :
        /\ SendEnded(c) /\ outcome[c].kind = "ret" /\ ReadWhole(c)
        /\ outcome[c].re = RequestOf(c)
        /\ Reconnected(outcome[c].conn, outcome[c].sock)

----------------------------------------------------------------------------
(* The remote closes in the middle of a response *)

(* recv returned b'' on a buffer that holds bytes *)
ClosedMidStream(c) == SendEnded(c) /\ ev[c] = "empty" /\ outcome[c].buf # <<>>

(* C22: when recv returns b'' after bytes that do not parse, the loop is   *)
(* left, the decode after the loop fails, the receiver raises "Incomplete  *)
(* JSON response received" and send_command clears the handle              *)
C22_ClosedMidStream ==
    \A c \in AllCallers : ClosedMidStream(c) => IncompleteAndCleared(c)

C22_Witness ==
    \E c \in AllCallers :
        /\ ClosedMidStream(c)
        /\ outcome[c].sock # 0
        /\ socks[outcome[c].sock].closes = 0
        /\ IncompleteAndCleared(c)

----------------------------------------------------------------------------
(* One command, one write *)

(* this step wrote a command to the socket s *)
Wrote(s) ==
    /\ s \in 1..Len(socks')
    /\ Len(socks'[s].inbox) > (IF s <= Len(socks) THEN Len(socks[s].inbox) ELSE 0)

(* a call goes from get_unity_connection to send_command, from the write   *)
(* to the receive loop, and from there to its end: never back              *)
OnePass(c) ==
    /\ (pc'[c] = "send" /\ pc[c] # "send") => pc[c] = "idle"
    /\ pc[c] = "send" => pc'[c] \in {"send", "recv", "done"}
    /\ pc[c] = "recv" => pc'[c] \in {"recv", "done"}
    /\ pc[c] = "done" => pc'[c] \in {"done", "idle"}
    /\ (pc[c] # "idle" /\ pc'[c] # "idle") => call'[c] = call[c]

(* the step that writes is the one that enters the receive loop, it writes *)
(* the one command of the call, and nothing has been read for the call yet *)
WritesOnceBeforeReading(c) ==
    \A s \in 1..Len(socks') :
        Wrote(s) =>
            /\ pc[c] = "send" /\ pc'[c] = "recv"
            /\ rsock'[c] = s
            /\ chunks'[c] = <<>>
            /\ socks'[s].inbox =
                   (IF s <= Len(socks) THEN socks[s].inbox ELSE <<>>)
                   \o << CommandBytes(call[c].type, call[c].params) >>

(* C23: no call is retried: send_command writes its command at most once,  *)
(* before any read for the call, and a tool calls send_command at most     *)
(* once, whatever fails                                                    *)
C23_NoRetry ==
    [][OnePass(1) /\ WritesOnceBeforeReading(1)]_vars

(* a tool call whose receive timed out has ended with its error text: the  *)
(* handle is cleared and nothing was written again                         *)
C23_Witness ==
    \E c \in AllCallers :
        /\ ToolEnded(c) /\ SendEnded(c)
        /\ ev[c] = "timeout"
        /\ outcome[c].kind = "exc"
        /\ toolRet[c] # NoRet
        /\ conns[outcome[c].conn].sock = 0

----------------------------------------------------------------------------
(* The address of the remote *)

(* C24: the Connection the registry holds, and so every Connection         *)
(* get_unity_connection returns, is one for the configured address         *)
C24_RegistryTargetsConfigured ==
    /\ registry # 0 => conns[registry].target = cfg
    /\ \A c \in AllCallers : held[c] # 0 => conns[held[c]].target = cfg

----------------------------------------------------------------------------
(* server_lifespan: start-up and shutdown *)

(* start-up ends in the running state, whatever get_unity_connection did *)
StartupBestEffort ==
    (phase = "starting" /\ phase' # "starting") => phase' = "running"

(* get_unity_connection, called for a command while the registry has no    *)
(* Connection with a handle, tries to connect: it returns a Connection     *)
(* whose socket was created in this step, or raises after two attempts     *)
AttemptsAgain(c) ==
    (/\ pc[c] = "idle" /\ pc'[c] \in {"send", "done"}
     /\ outcome'[c] # NoOutcome
     /\ outcome'[c].api = "get_unity_connection"
     /\ (registry = 0 \/ conns[registry].sock = 0))
    => IF outcome'[c].kind = "ret"
       THEN /\ Len(socks') = Len(socks) + 1
            /\ conns'[registry'].sock = Len(socks')
            /\ socks'[Len(socks')].peer = "open"
       ELSE /\ outcome'[c].attempts = 2
            /\ Len(socks') = Len(socks)
            /\ conns'[registry'].sock = 0

(* shutdown calls disconnect() on the registry's Connection: the socket it *)
(* holds is closed once more                                               *)
ShutdownDisconnects ==
    (phase = "running" /\ phase' = "stopped" /\ registry # 0 /\ conns[registry].sock # 0)
    => /\ registry' = registry
       /\ socks'[conns[registry].sock].closes = socks[conns[registry].sock].closes + 1

(* C25: the start-up connection is best-effort: the server reaches its     *)
(* running state also when get_unity_connection fails at start-up, and the *)
(* next command tries to connect again; after shutdown the registry's      *)
(* Connection, if there is one, has been disconnected and holds no handle  *)
C25_BestEffortStartup ==
    /\ [](phase = "stopped" => (registry # 0 => conns[registry].sock = 0))
    /\ [][StartupBestEffort /\ ShutdownDisconnects
           /\ \A c \in AllCallers : AttemptsAgain(c)]_vars

(* the server runs although the connection at start-up failed: no socket   *)
(* has ever been connected                                                 *)
C25_Witness ==
    /\ phase = "running"
    /\ socks = <<>>
    /\ registry # 0
    /\ conns[registry].sock = 0

----------------------------------------------------------------------------
(* What the receiver returns *)

(* C26: the receiver returns only buffers that are a complete JSON         *)
(* document, so json.loads in send_command never fails on what it returns, *)
(* and it returns them from inside the loop only: when the loop is left    *)
(* on b'' or on a timeout with bytes in the buffer, the decode after the   *)
(* loop fails and the receiver raises "Incomplete JSON response received"  *)
C26_ReturnsOnlyDocuments ==
    \A c \in AllCallers :
        SendEnded(c) =>
            /\ outcome[c].cause # NoExc => outcome[c].cause.cls # "JSONDecodeError"
            /\ outcome[c].kind = "ret" => (Parses(outcome[c].buf) /\ ev[c] = "chunk")
            /\ (ev[c] \in {"empty", "timeout"} /\ outcome[c].buf # <<>>)
               => /\ outcome[c].kind = "exc"
                  /\ outcome[c].cause = IncompleteResponse

(* the loop was left on a timeout with the first part of a response in    *)
(* the buffer                                                              *)
C26_Witness ==
    \E c \in AllCallers, d \in DocIds :
        /\ SendEnded(c)
        /\ ev[c] = "timeout"
        /\ outcome[c].buf # <<>>
        /\ Len(outcome[c].buf) < Len(Docs[d].bytes)
        /\ outcome[c].buf = SubSeq(Docs[d].bytes, 1, Len(outcome[c].buf))
        /\ outcome[c].cause = IncompleteResponse

----------------------------------------------------------------------------
(* One socket for consecutive commands *)

(* send_command returns a value: the Connection, its handle and the        *)
(* registry are as they were, and no socket was created                    *)
SuccessKeepsHandle(c) ==
    (pc[c] = "recv" /\ pc'[c] = "done" /\ outcome'[c].kind = "ret")
    => /\ conns' = conns
       /\ registry' = registry
       /\ Len(socks') = Len(socks)
       /\ conns[held[c]].sock = rsock[c]
       /\ socks'[rsock[c]].closes = 0

(* a command on a Connection that holds a handle: get_unity_connection     *)
(* returns that Connection and send_command writes to that handle          *)
ReusesHandle(c) ==
    /\ (/\ pc[c] = "idle" /\ pc'[c] = "send"
        /\ outcome'[c] # NoOutcome
        /\ outcome'[c].api = "get_unity_connection"
        /\ registry # 0 /\ conns[registry].sock # 0)
       => /\ registry' = registry
          /\ held'[c] = registry
          /\ conns' = conns
          /\ Len(socks') = Len(socks)
    /\ (pc[c] = "send" /\ conns[held[c]].sock # 0 /\ pc'[c] = "recv")
       => /\ rsock'[c] = conns[held[c]].sock
          /\ conns' = conns
          /\ Len(socks') = Len(socks)

(* C27: a send_command that succeeds leaves the handle as it is, and the   *)
(* next command uses it: consecutive successful commands all go over the   *)
(* socket the first connect() opened                                       *)
C27_SuccessKeepsSocket ==
    [][SuccessKeepsHandle(1) /\ ReusesHandle(1)]_vars

(* send_command, called again on the Connection the caller got for an      *)
(* earlier command, has returned a value over the only socket there has    *)
(* ever been                                                               *)
C27_Witness ==
    \E c \in AllCallers :
        /\ SendEnded(c) /\ outcome[c].kind = "ret"
        /\ call[c] \in ApiCalls
        /\ Len(socks) = 1
        /\ outcome[c].sock = 1
        /\ conns[outcome[c].conn].sock = 1
        /\ socks[1].closes = 0

----------------------------------------------------------------------------
(* connect(): its result and the handle *)

(* connect() called by caller c on the Connection it holds has just        *)
(* returned                                                                *)
ConnectEnded(c) == pc[c] = "done" /\ outcome[c].api = "connect"

(* the handle of a Connection is None or one socket, which a connect() of  *)
(* this Connection created and which no other Connection holds             *)
OneHandle ==
    \A k \in 1..Len(conns) :
        /\ conns[k].sock \in 0..Len(socks)
        /\ conns[k].sock # 0 =>
              /\ socks[conns[k].sock].owner = k
              /\ \A j \in 1..Len(conns) : conns[j].sock = conns[k].sock => j = k

(* C28: connect() returns True exactly when the Connection holds a handle  *)
(* when it returns, after False the handle is None, and so it is for the   *)
(* connect() calls of get_unity_connection, which returns when the last    *)
(* one returned True and raises when it returned False; a Connection has   *)
(* never more than one handle                                              *)
C28_ConnectResultAgrees ==
    /\ OneHandle
    /\ \A c \in AllCallers :
          /\ ConnectEnded(c) =>
                /\ outcome[c].val \in {Lit("true"), Lit("false")}
                /\ outcome[c].val = Lit("true") <=> conns[outcome[c].conn].sock # 0
          /\ (GetEnded(c) /\ pc[c] = "done") =>
                /\ outcome[c].kind = "exc"
                /\ conns[registry].sock = 0

(* connect() has returned False and the handle is None *)
C28_Witness ==
    \E c \in AllCallers :
        /\ ConnectEnded(c)
        /\ outcome[c].val = Lit("false")
        /\ conns[outcome[c].conn].sock = 0
        /\ Len(socks) >= 1

----------------------------------------------------------------------------
(* The success field decides *)

UnknownErrorRaised == Exc("Exception", << Lt(UnknownError) >>)

----------------------------------------------------------------------------
(* The params of create_object and create_light (CreateSpec) *)

(* caller c is in, or has just left, the send_command of a create tool *)
CreateSent(c) == pc[c] \in {"recv", "done"} /\ call[c] \in CreateCalls

(* the argument a key of params comes from, and the key an argument goes to *)
FieldOf(k) == IF k = << P("position") >> THEN "location" ELSE k[1].p
KeyOf(f) == IF f = "location" THEN << P("position") >> ELSE << P(f) >>

DefaultsOf(cl) == IF cl.tool = "create_light" THEN LightDefaults ELSE ObjectDefaults

(* the arguments a tool always puts into params, those it puts there when  *)
(* they are set, and of these the vectors it turns into x, y, z            *)
AlwaysPut(cl) ==
    IF cl.tool = "create_light" THEN {"type", "name", "intensity", "range"}
    ELSE {"type", "name"}
PutWhenSet(cl) ==
    IF cl.tool = "create_light" THEN {"location", "rotation", "color"}
    ELSE {"location", "rotation", "scale", "color", "material"}
Vectors == {"location", "rotation", "scale"}

(* C30 as stated: params holds a key only for an argument whose value is   *)
(* not the default of the argument                                         *)
C30_OnlyNonDefaultArguments ==
    \A c \in AllCallers :
        CreateSent(c) =>
            \A i \in 1..Len(call[c].params.obj) :
                LET f == FieldOf(call[c].params.obj[i].k)
                IN call[c].args[f] # DefaultsOf(call[c])[f]

(* C30: create_object always puts type and name into params, create_light  *)
(* type, name, intensity and range, with the values of the arguments, be   *)
(* they the defaults or not (a name left unset is sent as null); location  *)
(* (as position), rotation, scale, color and material get a key when they  *)
(* are set and none when they are not; params holds no other key, and the  *)
(* command written holds these params                                      *)
C30_ParamsOfArguments ==
    \A c \in AllCallers :
        CreateSent(c) =>
            LET cl == call[c]
                ms == cl.params.obj
            IN /\ \A f \in AlwaysPut(cl) :
                     HasKey(ms, KeyOf(f)) /\ DictGet(ms, KeyOf(f), NoVal) = cl.args[f]
               /\ \A f \in PutWhenSet(cl) :
                     /\ HasKey(ms, KeyOf(f)) <=> cl.args[f] # PyNone
                     /\ HasKey(ms, KeyOf(f)) =>
                           DictGet(ms, KeyOf(f), NoVal) =
                               (IF f \in Vectors THEN Xyz(cl.args[f]) ELSE cl.args[f])
               /\ \A i \in 1..Len(ms) : FieldOf(ms[i].k) \in AlwaysPut(cl) \cup PutWhenSet(cl)
               /\ InFlight(c) => SentBytes(c) = CommandBytes(cl.type, cl.params)

(* create_light with every argument at its default has written its         *)
(* command: params holds type, name (null), intensity and range            *)
C30_Witness ==
    \E c \in AllCallers :
        /\ CreateSent(c) /\ InFlight(c)
        /\ call[c].tool = "create_light"
        /\ call[c].args = LightDefaults
        /\ Len(call[c].params.obj) = 4
        /\ DictGet(call[c].params.obj, << P("name") >>, NoVal) = PyNone
        /\ HasKey(call[c].params.obj, << P("intensity") >>)
        /\ HasKey(call[c].params.obj, << P("range") >>)
        /\ SentBytes(c) = CommandBytes(call[c].type, call[c].params)

====
